---- MODULE Spec2Model ----
(***************************************************************************)
(* Model of src/src/App.jsx: the shift+base64 codec (encode, decode), the  *)
(* scan workflow of the App component (scan, submit, response, reset) and  *)
(* the QR generator (email, generate, download).                           *)
(*                                                                         *)
(* A JavaScript string is a sequence of UTF-16 code units (0..65535).      *)
(* A call that can throw returns [threw |-> BOOLEAN, val |-> string].      *)
(***************************************************************************)
EXTENDS Integers, Sequences, FiniteSets, TLC

(***************************************************************************)
(* Bounds of the model.                                                    *)
(***************************************************************************)
MaxCodecLen == 4

MaxPrintableLen == 2

MaxEmailLen == 2

MaxInFlight == 2

(***************************************************************************)
(* Codec: encode (App.jsx 7-13) and decode (App.jsx 15-26).                *)
(***************************************************************************)
Shift == 3

\* String.fromCharCode(n): ToUint16 of the argument.
FromCharCode(n) == n % 65536

Ok(v) == [threw |-> FALSE, val |-> v]

Threw == [threw |-> TRUE, val |-> <<>>]

\* "Invalid encoded data"
Sentinel ==
  <<73, 110, 118, 97, 108, 105, 100, 32, 101, 110, 99, 111, 100, 101, 100, 32,
    100, 97, 116, 97>>

\* The base64 alphabet: index 0..63 -> character code.
B64Char(i) ==
  IF i < 26 THEN 65 + i
  ELSE IF i < 52 THEN 97 + (i - 26)
  ELSE IF i < 62 THEN 48 + (i - 52)
  ELSE IF i = 62 THEN 43
  ELSE 47

IsB64Char(c) ==
  \/ c \in 65..90
  \/ c \in 97..122
  \/ c \in 48..57
  \/ c = 43
  \/ c = 47

B64Index(c) ==
  IF c \in 65..90 THEN c - 65
  ELSE IF c \in 97..122 THEN c - 97 + 26
  ELSE IF c \in 48..57 THEN c - 48 + 52
  ELSE IF c = 43 THEN 62
  ELSE 63

Pad == 61

IsAsciiWhitespace(c) == c \in {9, 10, 12, 13, 32}

RECURSIVE B64EncodeBytes(_)
B64EncodeBytes(b) ==
  IF Len(b) = 0 THEN <<>>
  ELSE IF Len(b) = 1 THEN
    <<B64Char(b[1] \div 4), B64Char((b[1] % 4) * 16), Pad, Pad>>
  ELSE IF Len(b) = 2 THEN
    <<B64Char(b[1] \div 4),
      B64Char((b[1] % 4) * 16 + (b[2] \div 16)),
      B64Char((b[2] % 16) * 4), Pad>>
  ELSE
    <<B64Char(b[1] \div 4),
      B64Char((b[1] % 4) * 16 + (b[2] \div 16)),
      B64Char((b[2] % 16) * 4 + (b[3] \div 64)),
      B64Char(b[3] % 64)>> \o B64EncodeBytes(SubSeq(b, 4, Len(b)))

\* btoa(s): InvalidCharacterError when a code unit exceeds 255.
Btoa(s) ==
  IF \E i \in 1..Len(s) : s[i] > 255 THEN Threw
  ELSE Ok(B64EncodeBytes(s))

RECURSIVE StripWhitespace(_)
StripWhitespace(s) ==
  IF Len(s) = 0 THEN <<>>
  ELSE IF IsAsciiWhitespace(Head(s)) THEN StripWhitespace(Tail(s))
  ELSE <<Head(s)>> \o StripWhitespace(Tail(s))

\* Forgiving-base64: with a length divisible by 4, one or two trailing "="
\* are removed.
StripPadding(s) ==
  IF Len(s) > 0 /\ Len(s) % 4 = 0 THEN
    IF s[Len(s)] = Pad /\ s[Len(s) - 1] = Pad THEN SubSeq(s, 1, Len(s) - 2)
    ELSE IF s[Len(s)] = Pad THEN SubSeq(s, 1, Len(s) - 1)
    ELSE s
  ELSE s

\* Decoding of 6-bit digits d (Len(d) % 4 # 1); leftover bits are discarded.
RECURSIVE B64DecodeDigits(_)
B64DecodeDigits(d) ==
  IF Len(d) = 0 THEN <<>>
  ELSE IF Len(d) = 2 THEN
    <<d[1] * 4 + (d[2] \div 16)>>
  ELSE IF Len(d) = 3 THEN
    <<d[1] * 4 + (d[2] \div 16), (d[2] % 16) * 16 + (d[3] \div 4)>>
  ELSE
    <<d[1] * 4 + (d[2] \div 16),
      (d[2] % 16) * 16 + (d[3] \div 4),
      (d[3] % 4) * 64 + d[4]>> \o B64DecodeDigits(SubSeq(d, 5, Len(d)))

\* atob(data): InvalidCharacterError when data is not forgiving-base64.
Atob(data) ==
  LET s == StripPadding(StripWhitespace(data))
  IN IF Len(s) % 4 = 1 THEN Threw
     ELSE IF \E i \in 1..Len(s) : ~IsB64Char(s[i]) THEN Threw
     ELSE Ok(B64DecodeDigits([i \in 1..Len(s) |-> B64Index(s[i])]))

\* App.jsx 10: String.fromCharCode(str.charCodeAt(i) + 3)
ShiftChar(c) == FromCharCode(c + Shift)

UnshiftCharOff(c) == FromCharCode(c - (Shift - 1))

\* App.jsx 20: String.fromCharCode(decoded.charCodeAt(i) - 3)
UnshiftChar(c) == FromCharCode(c - Shift)

\* App.jsx 7-13; the exception of btoa is not caught here.
encode(str) == Btoa([i \in 1..Len(str) |-> ShiftChar(str[i])])

decodeNoCatch(str) ==
  LET decoded == Atob(str)
  IN IF decoded.threw THEN Threw
     ELSE Ok([i \in 1..Len(decoded.val) |-> UnshiftChar(decoded.val[i])])

\* App.jsx 15-26; the catch turns the exception of atob into the sentinel.
decode(str) ==
  LET decoded == Atob(str)
  IN IF decoded.threw THEN Ok(Sentinel)
     ELSE Ok([i \in 1..Len(decoded.val) |-> UnshiftChar(decoded.val[i])])

(***************************************************************************)
(* State of the App component (App.jsx 29-35), the POSTs in flight and the *)
(* last handler that ran.                                                  *)
(***************************************************************************)
VARIABLES
  scanResult,      \* useState(null): NoScan or Scan(text)
  isScanning,      \* useState(false): the submitting flag
  status,          \* useState(''): the parts of the message, <<>> for ''
  selectedAction,  \* useState(null): "null", "entry" or "exit"
  email,           \* useState(''): the generator's input
  qrCodeUrl,       \* useState(''): <<>> for '', else the rendered image
  inflight,        \* the sendToBackend calls suspended at an await
  renderThrew,     \* an exception escaped the render of App
  event,           \* the handler that ran last and what it did
  scanner,         \* the Html5QrcodeScanner of the effect and its life
  codecIn,         \* codec harness: the input string
  codecOut,        \* codec harness: the result of the last call
  codecOp          \* codec harness: the last call

vars ==
  <<scanResult, isScanning, status, selectedAction, email, qrCodeUrl,
    inflight, renderThrew, event, scanner, codecIn, codecOut, codecOp>>

scanVars == <<scanResult, isScanning, status, selectedAction, inflight>>

genVars == <<email, qrCodeUrl>>

codecVars == <<codecIn, codecOut, codecOp>>

NoScan == [some |-> FALSE, text |-> <<>>]

Scan(text) == [some |-> TRUE, text |-> text]

TruthyAlways(sr) == TRUE

\* App.jsx 70, 164: null and '' are falsy.
Truthy(sr) == sr.some /\ sr.text # <<>>

EntryEndpoint == "/api/v1/qr/allow-entry"

ExitEndpoint == "/api/v1/qr/exit"

Endpoints == {EntryEndpoint, ExitEndpoint}

\* endpoint.includes('entry')
IncludesEntry(endpoint) == endpoint = EntryEndpoint

\* The texts the scanner delivers: "QQ==", "!" and "".
ScanTexts == {<<81, 81, 61, 61>>, <<33>>, <<>>}

\* response.statusText of a non-2xx response.
StatusTexts == {"", "Conflict"}

\* The body of a response: an object with a message, a value without one,
\* the JSON value null, or text that is not JSON.
Bodies == {"message", "nomessage", "null", "unparsable"}

BodyMessage == "Already recorded"

PromptStatus == <<"QR Code scanned! Select entry or exit action.">>

SendingStatus == <<"Sending to backend...">>

SuccessStatusAlwaysEntry(endpoint) ==
  <<"[check] ", "Entry", " recorded successfully!">>

\* App.jsx 88; "[check] " stands for the check mark and the space after it.
SuccessStatus(endpoint) ==
  <<"[check] ", IF IncludesEntry(endpoint) THEN "Entry" ELSE "Exit",
    " recorded successfully!">>

\* App.jsx 95-99; "[cross] " stands for the ballot cross and the space.
FailureStatus(endpoint, errorMessage) ==
  IF IncludesEntry(endpoint)
  THEN <<"[cross] Entry Error: ", errorMessage,
         " (User may have already entered)">>
  ELSE <<"[cross] Exit Error: ", errorMessage,
         " (User may not have entered yet)">>

\* App.jsx 102
NetworkStatus(message) == <<"[cross] Network Error: ", message>>

SuccessActionSwapped(endpoint) ==
  IF IncludesEntry(endpoint) THEN "exit" ELSE "entry"

\* App.jsx 90
SuccessAction(endpoint) == IF IncludesEntry(endpoint) THEN "entry" ELSE "exit"

EntryDisabledAfterOnly(submitting, action) == action = "entry"

\* App.jsx 186
EntryDisabled(submitting, action) == submitting \/ action = "entry"

\* App.jsx 197
ExitDisabled(submitting, action) == submitting \/ action = "exit"

Disabled(endpoint, submitting, action) ==
  IF IncludesEntry(endpoint) THEN EntryDisabled(submitting, action)
  ELSE ExitDisabled(submitting, action)

FlagAfterTryOnly(outcome) == outcome = "threw"

\* App.jsx 104-106: finally { setIsScanning(false) }, whatever the outcome
\* ("ok", "failed" or "threw").
FlagAfter(outcome) == FALSE

Remove(s, i) == SubSeq(s, 1, i - 1) \o SubSeq(s, i + 1, Len(s))

\* App.jsx 150-304: the render of App evaluates decode(scanResult) when the
\* result panel is shown and decode(encode(email)) when an image is shown.
RenderThrows(sr, em, qr) ==
  \/ Truthy(sr) /\ decode(sr.text).threw
  \/ qr # <<>> /\ encode(em).threw

\* App.jsx 131: QRCode.toDataURL(encodedEmail, ...) when it succeeds.
ToDataURL(token) == <<"data:image/png;base64", token>>

SeqsUpTo(S, n) == UNION {[1..k -> S] : k \in 0..n}

\* The characters typed into the email field: "a" and y-acute (253 + 3 > 255).
EmailChars == {97, 253}

Emails == SeqsUpTo(EmailChars, MaxEmailLen)

Ev(op, arg) == [op |-> op, arg |-> arg]

\* React renders App again after a handler has set state.
Rerender ==
  renderThrew' = (renderThrew \/ RenderThrows(scanResult', email', qrCodeUrl'))

\* App.jsx 37-57: the scanner before the effect has run, while App is
\* mounted, and after the cleanup of the effect.
ScannerAt(phase, acquired, cleared, escaped) ==
  [phase |-> phase, acquired |-> acquired, cleared |-> cleared,
   escaped |-> escaped]

\* App.jsx 29-34: the values of useState at the first render.
InitState ==
  /\ scanResult = NoScan
  /\ isScanning = FALSE
  /\ status = <<>>
  /\ selectedAction = "null"
  /\ email = <<>>
  /\ qrCodeUrl = <<>>
  /\ inflight = <<>>
  /\ renderThrew = FALSE
  /\ event = Ev("init", "")
  /\ codecOut = Ok(<<>>)
  /\ codecOp = "idle"

\* The state after the first render and the effect of App.jsx 37-49.
InitApp ==
  /\ InitState
  /\ scanner = ScannerAt("mounted", 1, 0, FALSE)

Init ==
  /\ InitApp
  /\ codecIn = <<>>

(***************************************************************************)
(* Scan workflow.                                                          *)
(***************************************************************************)
onScanSuccessKeepsAction(decodedText) ==
  /\ scanResult' = Scan(decodedText)
  /\ status' = PromptStatus
  /\ event' = [op |-> "onScanSuccess", arg |-> "", text |-> decodedText]
  /\ UNCHANGED <<selectedAction, isScanning, inflight, genVars, codecVars, scanner>>
  /\ Rerender

\* App.jsx 59-63
onScanSuccess(decodedText) ==
  /\ scanResult' = Scan(decodedText)
  /\ selectedAction' = "null"
  /\ status' = PromptStatus
  /\ event' = [op |-> "onScanSuccess", arg |-> "", text |-> decodedText]
  /\ UNCHANGED <<isScanning, inflight, genVars, codecVars, scanner>>
  /\ Rerender

\* App.jsx 65-67
onScanError ==
  /\ event' = Ev("onScanError", "")
  /\ UNCHANGED <<scanVars, genVars, renderThrew, codecVars, scanner>>

\* App.jsx 69-84: sendToBackend up to its first await. The request body is
\* the scanResult of the render the handler was created in.
sendToBackend(endpoint) ==
  /\ event' = Ev("sendToBackend", endpoint)
  /\ IF ~Truthy(scanResult)
     THEN UNCHANGED <<scanVars, genVars, renderThrew, codecVars, scanner>>
     ELSE /\ Len(inflight) < MaxInFlight
          /\ isScanning' = TRUE
          /\ status' = SendingStatus
          /\ inflight' = Append(inflight,
               [endpoint |-> endpoint, body |-> scanResult.text,
                pc |-> "fetch", ok |-> FALSE, statusText |-> ""])
          /\ UNCHANGED <<scanResult, selectedAction, genVars, codecVars, scanner>>
          /\ Rerender

\* App.jsx 184-186, 109-111: a click on the entry button, which exists only
\* in the result panel and only fires when it is not disabled.
handleEntry ==
  /\ Truthy(scanResult)
  /\ ~EntryDisabled(isScanning, selectedAction)
  /\ sendToBackend(EntryEndpoint)

\* App.jsx 195-197, 113-115
handleExit ==
  /\ Truthy(scanResult)
  /\ ~ExitDisabled(isScanning, selectedAction)
  /\ sendToBackend(ExitEndpoint)

\* App.jsx 76, 86: fetch resolves with a response; the call goes on to await
\* response.json().
FetchResolve(i, ok, statusText) ==
  /\ inflight[i].pc = "fetch"
  /\ inflight' = [inflight EXCEPT ![i].pc = "json", ![i].ok = ok,
                                  ![i].statusText = statusText]
  /\ event' = Ev("fetchResolve", inflight[i].endpoint)
  /\ UNCHANGED <<scanResult, isScanning, status, selectedAction, genVars,
                 renderThrew, codecVars, scanner>>

\* What a sendToBackend call did when it ended: the outcome, the endpoint,
\* the body of the response ("none" without a response) and the scanned text
\* the POST carried.
SettleEv(outcome, request, body) ==
  [op |-> outcome, arg |-> request.endpoint, body |-> body,
   sent |-> request.body]

SettleDiscardsStale(i, outcome, body, newStatus, newAction) ==
  /\ status' = IF scanResult.some THEN newStatus ELSE status
  /\ selectedAction' = IF scanResult.some THEN newAction ELSE selectedAction
  /\ isScanning' = FlagAfter(outcome)
  /\ inflight' = Remove(inflight, i)
  /\ event' = SettleEv(outcome, inflight[i], body)
  /\ UNCHANGED <<scanResult, genVars, codecVars, scanner>>
  /\ Rerender

\* The end of a sendToBackend call: the last setStatus, setSelectedAction on
\* success, and the finally clause.
Settle(i, outcome, body, newStatus, newAction) ==
  /\ status' = newStatus
  /\ selectedAction' = newAction
  /\ isScanning' = FlagAfter(outcome)
  /\ inflight' = Remove(inflight, i)
  /\ event' = SettleEv(outcome, inflight[i], body)
  /\ UNCHANGED <<scanResult, genVars, codecVars, scanner>>
  /\ Rerender

\* App.jsx 76, 101-106: fetch rejects (no response).
FetchReject(i) ==
  /\ inflight[i].pc = "fetch"
  /\ Settle(i, "threw", "none", NetworkStatus("Failed to fetch"),
            selectedAction)

\* App.jsx 93
ErrorMessage(body, statusText) ==
  IF body = "message" THEN BodyMessage ELSE statusText

\* App.jsx 86-106: response.json() settles.
JsonSettle(i, body) ==
  /\ inflight[i].pc = "json"
  /\ IF inflight[i].ok
     THEN IF body = "unparsable"
          THEN Settle(i, "threw", body, NetworkStatus("Unexpected token"),
                      selectedAction)
          ELSE Settle(i, "ok", body, SuccessStatus(inflight[i].endpoint),
                      SuccessAction(inflight[i].endpoint))
     ELSE IF body = "null"
          THEN Settle(i, "threw", body,
                      NetworkStatus("Cannot read properties of null"),
                      selectedAction)
          ELSE Settle(i, "failed", body,
                      FailureStatus(inflight[i].endpoint,
                                    ErrorMessage(body, inflight[i].statusText)),
                      selectedAction)

handleResetKeepsAction ==
  /\ scanResult' = NoScan
  /\ status' = <<>>
  /\ event' = Ev("handleReset", "")
  /\ UNCHANGED <<selectedAction, isScanning, inflight, genVars, codecVars, scanner>>
  /\ Rerender

\* App.jsx 117-121
handleReset ==
  /\ scanResult' = NoScan
  /\ status' = <<>>
  /\ selectedAction' = "null"
  /\ event' = Ev("handleReset", "")
  /\ UNCHANGED <<isScanning, inflight, genVars, codecVars, scanner>>
  /\ Rerender

\* App.jsx 216-221: the reset button exists only in the result panel.
ClickReset ==
  /\ Truthy(scanResult)
  /\ handleReset

(***************************************************************************)
(* QR generator.                                                           *)
(***************************************************************************)
\* App.jsx 246: onChange={(e) => setEmail(e.target.value)}
setEmail(value) ==
  /\ email' = value
  /\ event' = Ev("setEmail", "")
  /\ UNCHANGED <<scanVars, qrCodeUrl, codecVars, scanner>>
  /\ Rerender

\* What handleGenerateQR did: the alert it raised ("" for none), the calls it
\* made and whether QRCode.toDataURL resolves.
GenerateEv(warning, calls, renderOk) ==
  [op |-> "handleGenerateQR", arg |-> warning, calls |-> calls,
   renderOk |-> renderOk]

handleGenerateQRClearsOnFailure(renderOk) ==
  IF email = <<>>
  THEN /\ event' = GenerateEv("Please enter an email address", {}, renderOk)
       /\ UNCHANGED <<scanVars, genVars, renderThrew, codecVars, scanner>>
  ELSE LET encodedEmail == encode(email)
       IN IF encodedEmail.threw \/ ~renderOk
          THEN /\ event' = GenerateEv("Failed to generate QR code",
                                      IF encodedEmail.threw THEN {"encode"}
                                      ELSE {"encode", "toDataURL"}, renderOk)
               /\ qrCodeUrl' = <<>>
               /\ UNCHANGED <<scanVars, email, codecVars, scanner>>
               /\ Rerender
          ELSE /\ qrCodeUrl' = ToDataURL(encodedEmail.val)
               /\ event' = GenerateEv("", {"encode", "toDataURL"}, renderOk)
               /\ UNCHANGED <<scanVars, email, codecVars, scanner>>
               /\ Rerender

\* App.jsx 123-140; renderOk is whether QRCode.toDataURL resolves.
handleGenerateQR(renderOk) ==
  IF email = <<>>
  THEN /\ event' = GenerateEv("Please enter an email address", {}, renderOk)
       /\ UNCHANGED <<scanVars, genVars, renderThrew, codecVars, scanner>>
  ELSE LET encodedEmail == encode(email)
       IN IF encodedEmail.threw \/ ~renderOk
          THEN /\ event' = GenerateEv("Failed to generate QR code",
                                      IF encodedEmail.threw THEN {"encode"}
                                      ELSE {"encode", "toDataURL"}, renderOk)
               /\ UNCHANGED <<scanVars, genVars, renderThrew, codecVars, scanner>>
          ELSE /\ qrCodeUrl' = ToDataURL(encodedEmail.val)
               /\ event' = GenerateEv("", {"encode", "toDataURL"}, renderOk)
               /\ UNCHANGED <<scanVars, email, codecVars, scanner>>
               /\ Rerender

\* App.jsx 145: link.download
Filename(address) == <<"qr-", address, ".png">>

\* App.jsx 142-148: without an image nothing is saved; else the browser
\* saves the image (href) under the file name (download).
handleDownloadQR ==
  /\ event' = IF qrCodeUrl = <<>>
              THEN Ev("handleDownloadQR", "")
              ELSE [op |-> "handleDownloadQR", arg |-> "click",
                    download |-> Filename(email), href |-> qrCodeUrl]
  /\ UNCHANGED <<scanVars, genVars, renderThrew, codecVars, scanner>>

(***************************************************************************)
(* Events. A handler runs only while App is mounted: an exception that     *)
(* escapes its render unmounts the tree. A sendToBackend call suspended at *)
(* an await runs on regardless.                                            *)
(***************************************************************************)
ScannerDecoded == ~renderThrew /\ \E text \in ScanTexts : onScanSuccess(text)

ScannerMissed == ~renderThrew /\ onScanError

ClickEntry == ~renderThrew /\ handleEntry

ClickExit == ~renderThrew /\ handleExit

ClickScanAnother == ~renderThrew /\ ClickReset

FetchResolved ==
  \E i \in 1..Len(inflight), ok \in BOOLEAN, statusText \in StatusTexts :
    /\ ok => statusText = ""
    /\ FetchResolve(i, ok, statusText)

FetchRejected == \E i \in 1..Len(inflight) : FetchReject(i)

JsonSettled == \E i \in 1..Len(inflight), body \in Bodies : JsonSettle(i, body)

TypeEmail == ~renderThrew /\ \E value \in Emails : setEmail(value)

ClickGenerate == ~renderThrew /\ \E renderOk \in BOOLEAN : handleGenerateQR(renderOk)

\* App.jsx 259, 277-282: the download button exists only beside an image.
ClickDownload == ~renderThrew /\ qrCodeUrl # <<>> /\ handleDownloadQR

ScanNext ==
  \/ ScannerDecoded
  \/ ScannerMissed
  \/ ClickEntry
  \/ ClickExit
  \/ ClickScanAnother
  \/ FetchResolved
  \/ FetchRejected
  \/ JsonSettled

GenNext ==
  \/ TypeEmail
  \/ ClickGenerate
  \/ ClickDownload

Next == ScanNext \/ GenNext

Spec == Init /\ [][Next]_vars

\* The scan workflow alone, with every POST settling in the end.
LiveSpec ==
  /\ Init
  /\ [][ScanNext]_vars
  /\ WF_vars(FetchResolved \/ FetchRejected)
  /\ WF_vars(JsonSettled)

\* The handlers called as functions, whatever the view shows.
CallSend == ~renderThrew /\ \E endpoint \in Endpoints : sendToBackend(endpoint)

CallReset == ~renderThrew /\ handleReset

CallNext == ScanNext \/ CallSend \/ CallReset

CallSpec == Init /\ [][CallNext]_vars

(***************************************************************************)
(* The life of the view: first render, effect, events, cleanup.            *)
(***************************************************************************)
CleanupPropagatesRejection(rejected) == rejected

\* App.jsx 52-54: clear().catch(...) logs the rejection; nothing leaves the
\* cleanup.
CleanupPropagates(rejected) == FALSE

\* App.jsx 37-49: the effect creates the scanner and renders it.
MountEffect ==
  /\ scanner.phase = "rendered"
  /\ scanner' = [scanner EXCEPT !.phase = "mounted",
                                !.acquired = scanner.acquired + 1]
  /\ event' = Ev("effect", "")
  /\ UNCHANGED <<scanVars, genVars, renderThrew, codecVars>>

\* App.jsx 50-56: the cleanup of the effect; rejected is whether the promise
\* of clear() rejects.
Cleanup(rejected) ==
  /\ scanner.phase = "mounted"
  /\ scanner' = [scanner EXCEPT !.phase = "unmounted",
                                !.cleared = scanner.cleared + 1,
                                !.escaped = CleanupPropagates(rejected)]
  /\ event' = Ev("cleanup", IF rejected THEN "rejected" ELSE "resolved")
  /\ UNCHANGED <<scanVars, genVars, renderThrew, codecVars>>

Teardown == \E rejected \in BOOLEAN : Cleanup(rejected)

\* The scanner calls back and the buttons exist only while App is mounted.
Alive == scanner.phase = "mounted"

LifeInit ==
  /\ InitState
  /\ scanner = ScannerAt("rendered", 0, 0, FALSE)
  /\ codecIn = <<>>

LifeNext ==
  \/ MountEffect
  \/ Teardown
  \/ Alive /\ ScannerDecoded
  \/ Alive /\ ScannerMissed
  \/ Alive /\ ClickEntry
  \/ Alive /\ ClickExit
  \/ Alive /\ ClickScanAnother
  \/ FetchResolved
  \/ FetchRejected
  \/ JsonSettled

LifeSpec == LifeInit /\ [][LifeNext]_vars

(***************************************************************************)
(* Codec harness: encode and decode applied to bounded strings.            *)
(***************************************************************************)
\* " ", "!", "=", "Q", "g", "~" and y-acute.
CodecChars == {32, 33, 61, 81, 103, 126, 253}

Printable == 32..126

IsPrintable(s) == \A i \in 1..Len(s) : s[i] \in Printable

\* Every string over CodecChars up to MaxCodecLen and every printable ASCII
\* string up to MaxPrintableLen.
CodecInputs ==
  SeqsUpTo(CodecChars, MaxCodecLen) \cup SeqsUpTo(Printable, MaxPrintableLen)

CodecInit ==
  /\ InitApp
  /\ codecIn \in CodecInputs

CodecEncode ==
  /\ codecOp = "idle"
  /\ codecOp' = "encode"
  /\ codecOut' = encode(codecIn)
  /\ UNCHANGED <<scanVars, genVars, renderThrew, event, codecIn, scanner>>

CodecRoundTrip ==
  /\ codecOp = "encode"
  /\ ~codecOut.threw
  /\ codecOp' = "roundtrip"
  /\ codecOut' = decode(codecOut.val)
  /\ UNCHANGED <<scanVars, genVars, renderThrew, event, codecIn, scanner>>

CodecDecode ==
  /\ codecOp = "idle"
  /\ codecOp' = "decode"
  /\ codecOut' = decode(codecIn)
  /\ UNCHANGED <<scanVars, genVars, renderThrew, event, codecIn, scanner>>

CodecNext == CodecEncode \/ CodecRoundTrip \/ CodecDecode

CodecSpec == CodecInit /\ [][CodecNext]_vars

(***************************************************************************)
(* Properties.                                                             *)
(***************************************************************************)
EndpointOf(kind) == IF kind = "entry" THEN EntryEndpoint ELSE ExitEndpoint

\* C1: selectedAction changes from null to entry (resp. exit) only in the
\* step that handles a 2xx response to a POST to the entry (resp. exit)
\* endpoint; the step that handles a non-2xx response or a rejected fetch
\* leaves selectedAction, scanResult, email and qrCodeUrl as they were.
C1_ActionSetOnlyBySuccess ==
  [][/\ \A kind \in {"entry", "exit"} :
          (selectedAction = "null" /\ selectedAction' = kind) =>
            \E i \in 1..Len(inflight) :
              /\ inflight[i].pc = "json"
              /\ inflight[i].ok
              /\ inflight[i].endpoint = EndpointOf(kind)
              /\ inflight' = Remove(inflight, i)
     /\ \A i \in 1..Len(inflight) :
          (/\ inflight' = Remove(inflight, i)
           /\ inflight[i].pc = "fetch" \/ ~inflight[i].ok) =>
            UNCHANGED <<selectedAction, scanResult, email, qrCodeUrl>>
    ]_vars

\* C1 witness: a non-2xx response from the exit endpoint has been handled
\* and selectedAction is still the entry an earlier 2xx response set.
C1_Witness ==
  /\ event.op = "failed"
  /\ event.arg = ExitEndpoint
  /\ selectedAction = "entry"
  /\ status = FailureStatus(ExitEndpoint, BodyMessage)

\* C2: whenever selectedAction is entry or exit, both the entry button and
\* the exit button are disabled.
C2_BothButtonsDisabledOnceRecorded ==
  selectedAction \in {"entry", "exit"} =>
    /\ EntryDisabled(isScanning, selectedAction)
    /\ ExitDisabled(isScanning, selectedAction)

\* C3: selectedAction never changes from entry to exit or from exit to
\* entry in one step (every scan and every reset passes through null).
C3_EntryExitExclusive ==
  [][/\ ~(selectedAction = "entry" /\ selectedAction' = "exit")
     /\ ~(selectedAction = "exit" /\ selectedAction' = "entry")]_vars

\* C4: a call of sendToBackend while scanResult is absent issues no POST and
\* leaves scanResult, status, selectedAction and isScanning unchanged.
C4_SubmitWithoutScanIsNoOp ==
  [][(event'.op = "sendToBackend" /\ ~scanResult.some) =>
       UNCHANGED <<scanResult, status, selectedAction, isScanning, inflight>>
    ]_vars

\* C4 witness: sendToBackend has just been called with no scan result.
C4_Witness ==
  /\ event.op = "sendToBackend"
  /\ scanResult = NoScan
  /\ inflight = <<>>

\* C5: in the state right after handleReset, scanResult, status and
\* selectedAction have their initial values.
C5_ResetRestoresInitialValues ==
  event.op = "handleReset" =>
    /\ scanResult = NoScan
    /\ status = <<>>
    /\ selectedAction = "null"

\* C5 witness: handleReset has just run while a POST for the scan it
\* cleared is in flight.
C5_Witness ==
  /\ event.op = "handleReset"
  /\ isScanning
  /\ Len(inflight) = 1

\* C6: whenever isScanning is set it is cleared later, given that every
\* fetch and every response.json() settles.
C6_FlagEventuallyCleared == isScanning ~> ~isScanning

\* C6 witness: a call that ended in its catch clause has cleared the flag.
C6_Witness ==
  /\ event.op = "threw"
  /\ ~isScanning
  /\ inflight = <<>>

\* C7: at most one POST is in flight, and while one is in flight isScanning
\* is set and both buttons are disabled.
C7_AtMostOneInFlight ==
  /\ Len(inflight) <= 1
  /\ inflight # <<>> =>
       /\ isScanning
       /\ EntryDisabled(isScanning, selectedAction)
       /\ ExitDisabled(isScanning, selectedAction)

\* C7 witness: a new code was scanned while the POST for the previous one
\* is in flight.
C7_Witness ==
  /\ Len(inflight) = 1
  /\ event.op = "onScanSuccess"
  /\ Truthy(scanResult)
  /\ scanResult.text # inflight[1].body

\* C8: for a printable ASCII string s, encode(s) does not throw and
\* decode(encode(s)) = s.
C8_RoundTripPrintable ==
  IsPrintable(codecIn) =>
    /\ codecOp = "encode" => ~codecOut.threw
    /\ codecOp = "roundtrip" => codecOut = Ok(codecIn)

\* C8 witness: "~ Q=" has been encoded and decoded again.
C8_Witness ==
  /\ codecOp = "roundtrip"
  /\ codecIn = <<126, 32, 81, 61>>
  /\ codecOut.val = codecIn

NotWhitespace(c) == ~IsAsciiWhitespace(c)

\* The strings the platform's decoder takes as base64: ASCII whitespace
\* aside, base64 characters whose number is not 1 modulo 4, or base64
\* characters and then one or two "=" that fill the length to a multiple
\* of 4.
IsBase64(str) ==
  LET t == SelectSeq(str, NotWhitespace)
  IN \E p \in 0..2 :
       /\ Len(t) >= p
       /\ \A i \in 1..Len(t) :
            IF i > Len(t) - p THEN t[i] = Pad ELSE IsB64Char(t[i])
       /\ IF p = 0 THEN Len(t) % 4 # 1 ELSE Len(t) % 4 = 0

\* C9: decode never raises, and for an input that is not base64 it returns
\* "Invalid encoded data".
C9_InvalidBase64GivesSentinel ==
  codecOp = "decode" =>
    /\ ~codecOut.threw
    /\ ~IsBase64(codecIn) => codecOut.val = Sentinel

\* C9 witness: decode("Q===") returned the sentinel.
C9_Witness ==
  /\ codecOp = "decode"
  /\ codecIn = <<81, 61, 61, 61>>
  /\ codecOut = Ok(Sentinel)

\* C10: no exception escapes the render of App.
C10_NoExceptionEscapes == ~renderThrew

KindOf(endpoint) == IF endpoint = EntryEndpoint THEN "entry" ELSE "exit"

KindName(endpoint) == IF endpoint = EntryEndpoint THEN "Entry" ELSE "Exit"

\* C11 as stated: after the response to a POST that received a 2xx response
\* is handled, selectedAction is the kind of the POST and status is the
\* kind's success message, whatever the body of the response.
C11_SuccessWhateverBody ==
  [][\A i \in 1..Len(inflight) :
       (/\ inflight[i].pc = "json"
        /\ inflight[i].ok
        /\ inflight' = Remove(inflight, i)) =>
         /\ selectedAction' = KindOf(inflight[i].endpoint)
         /\ status' = <<"[check] ", KindName(inflight[i].endpoint),
                        " recorded successfully!">>
    ]_vars

\* C11 amended: the same, for a 2xx response whose body parses as JSON
\* (whatever the value, null included).
C11_SuccessWhenBodyParses ==
  [][\A i \in 1..Len(inflight) :
       (/\ inflight[i].pc = "json"
        /\ inflight[i].ok
        /\ inflight' = Remove(inflight, i)
        /\ event'.body # "unparsable") =>
         /\ selectedAction' = KindOf(inflight[i].endpoint)
         /\ status' = <<"[check] ", KindName(inflight[i].endpoint),
                        " recorded successfully!">>
    ]_vars

\* C11 witness: a 2xx response from the exit endpoint whose body is the JSON
\* value null has been handled.
C11_Witness ==
  /\ event.op = "ok"
  /\ event.arg = ExitEndpoint
  /\ event.body = "null"
  /\ selectedAction = "exit"
  /\ status = SuccessStatus(ExitEndpoint)

\* C12: the step that handles a non-2xx response sets status to the failure
\* message of the endpoint with its hint, the step that handles a rejected
\* fetch sets it to the network-error message, and both leave
\* selectedAction unchanged.
C12_FailureMessageByOutcome ==
  [][\A i \in 1..Len(inflight) :
       /\ (/\ inflight[i].pc = "json"
           /\ ~inflight[i].ok
           /\ inflight' = Remove(inflight, i)) =>
            /\ Len(status') = 3
            /\ status'[1] = IF inflight[i].endpoint = EntryEndpoint
                            THEN "[cross] Entry Error: "
                            ELSE "[cross] Exit Error: "
            /\ status'[3] = IF inflight[i].endpoint = EntryEndpoint
                            THEN " (User may have already entered)"
                            ELSE " (User may not have entered yet)"
            /\ selectedAction' = selectedAction
       /\ (/\ inflight[i].pc = "fetch"
           /\ inflight' = Remove(inflight, i)) =>
            /\ Len(status') = 2
            /\ status'[1] = "[cross] Network Error: "
            /\ selectedAction' = selectedAction
    ]_vars

\* C13: a 2xx response that is handled after handleReset has cleared
\* scanResult is applied all the same: it sets selectedAction to the kind of
\* its POST and status to a message, while scanResult stays absent.
C13_ResponseAfterResetApplied ==
  (event.op = "ok" /\ ~scanResult.some) =>
    /\ selectedAction = KindOf(event.arg)
    /\ status # <<>>
    /\ ~isScanning

\* C13 witness: handleReset ran while a POST was in flight, and its 2xx
\* response has since been handled.
C13_Witness ==
  /\ event.op = "ok"
  /\ scanResult = NoScan
  /\ selectedAction \in {"entry", "exit"}
  /\ status # <<>>

\* C14: onScanSuccess(text) sets scanResult to text, selectedAction to null
\* and status to the prompt, and leaves isScanning, the POSTs in flight,
\* email and qrCodeUrl unchanged.
C14_ScanOverwritesAndClears ==
  [][event'.op = "onScanSuccess" =>
       /\ scanResult' = [some |-> TRUE, text |-> event'.text]
       /\ selectedAction' = "null"
       /\ status' = <<"QR Code scanned! Select entry or exit action.">>
       /\ UNCHANGED <<isScanning, inflight, email, qrCodeUrl>>
    ]_vars

\* C14 witness: a code was scanned while a POST awaits the body of its
\* response and an image is shown in the generator.
C14_Witness ==
  /\ event.op = "onScanSuccess"
  /\ Len(inflight) = 1
  /\ inflight[1].pc = "json"
  /\ isScanning
  /\ selectedAction = "null"
  /\ scanResult = Scan(event.text)
  /\ qrCodeUrl # <<>>

\* C15: handleGenerateQR changes qrCodeUrl only when email is non-empty and
\* both encode and QRCode.toDataURL succeed; with an empty email it calls
\* neither and raises the warning; when encode throws or toDataURL rejects it
\* raises the failure warning; in both cases qrCodeUrl is left as it was.
C15_GenerateStoresOnlyOnSuccess ==
  [][event'.op = "handleGenerateQR" =>
       /\ email' = email
       /\ email = <<>> =>
            /\ event'.calls = {}
            /\ event'.arg = "Please enter an email address"
            /\ qrCodeUrl' = qrCodeUrl
       /\ (email # <<>> /\ (encode(email).threw \/ ~event'.renderOk)) =>
            /\ event'.arg = "Failed to generate QR code"
            /\ qrCodeUrl' = qrCodeUrl
       /\ (email # <<>> /\ ~encode(email).threw /\ event'.renderOk) =>
            /\ event'.arg = ""
            /\ qrCodeUrl' = <<"data:image/png;base64", encode(email).val>>
    ]_vars

\* C15 witness: QRCode.toDataURL has just rejected and the image stored by
\* an earlier call is still there.
C15_Witness ==
  /\ event.op = "handleGenerateQR"
  /\ event.arg = "Failed to generate QR code"
  /\ ~event.renderOk
  /\ email # <<>>
  /\ qrCodeUrl # <<>>

\* C18: whenever handleDownloadQR saves an image, the image is the one
\* rendered from the email in the file name.
C18_DownloadMatchesEmail ==
  (event.op = "handleDownloadQR" /\ event.arg = "click") =>
    /\ ~encode(event.download[2]).threw
    /\ event.href = ToDataURL(encode(event.download[2]).val)

\* C16: the scanner is acquired once, by the effect, and released once, by
\* the cleanup: before the effect it has been acquired 0 times, from then on
\* once; it has been released 0 times until the cleanup and once after it,
\* whatever scans, clicks and responses happen; and a rejected clear() does
\* not leave the cleanup.
C16_ScannerAcquiredAndReleasedOnce ==
  /\ scanner.acquired = IF scanner.phase = "rendered" THEN 0 ELSE 1
  /\ scanner.cleared = IF scanner.phase = "unmounted" THEN 1 ELSE 0
  /\ ~scanner.escaped

\* C16 witness: after a scan and a recorded entry the view was torn down
\* and clear() rejected.
C16_Witness ==
  /\ scanner = ScannerAt("unmounted", 1, 1, FALSE)
  /\ event = Ev("cleanup", "rejected")
  /\ selectedAction = "entry"

\* C17: right after a 2xx response has set selectedAction while a scan
\* result is present, the POST it answers carried that scan result.
C17_RecordedScanIsCurrentScan ==
  (event.op = "ok" /\ scanResult.some /\ selectedAction \in {"entry", "exit"}) =>
    event.sent = scanResult.text

====
